---- MODULE Spec2Model ----
(***************************************************************************)
(* Students, Lecturers and Reviewers of students_and_mentors.py: the two   *)
(* rating operations, the unchecked appends to the public course lists,    *)
(* the aggregation functions and the Student comparison operators.         *)
(***************************************************************************)
EXTENDS Integers, Sequences, FiniteSets, TLC

VARIABLES finished_courses, courses_in_progress, courses_attached, grades, last, query

vars == <<finished_courses, courses_in_progress, courses_attached, grades, last, query>>

(* ---------------------------------------------------------------- bounds *)
\* total number of entries over all course lists
MaxCourseEntries == 3
\* total number of grades recorded over all grade mappings (rating runs)
MaxRatings == 2
\* longest per-course grade sequence of an enumerated mapping (aggregation runs)
MaxSeqLen == 1

(* ------------------------------------------------------ program constants *)
\* 0 <= grade <= 10
MinGrade == 0
MaxGrade == 10

(* --------------------------------------------------------------- objects *)
Students == {"student1", "student2"}
Lecturers == {"lecturer"}
Reviewers == {"reviewer"}
Mentors == Lecturers \cup Reviewers
Entities == Students \cup Mentors
\* the objects that own a grades dictionary
Graded == Students \cup Lecturers

Courses == {"Python", "Java"}
\* grades a caller passes: below, at and above both ends of the range
GradeInputs == {-1, 0, 10, 11}
\* grades of the enumerated mappings of the aggregation runs
GradeValues == {0, 10}

\* return values of the rating operations: None, and the marker 'Ошибка'
None == "None"
Oshibka == "Oshibka"

(* --------------------------------------------------------------- helpers *)
\* course in some_list
InList(x, list) == \E i \in 1..Len(list) : list[i] = x

\* {} : a dictionary without keys
EmptyDict == [k \in {} |-> <<>>]

\* if course in d: d[course] += [grade]  else: d[course] = [grade]
AddGradeDropsOld(d, course, grade) ==
    [k \in DOMAIN d \cup {course} |-> IF k = course THEN <<grade>> ELSE d[k]]

AddGrade(d, course, grade) ==
    IF course \in DOMAIN d
    THEN [d EXCEPT ![course] = Append(@, grade)]
    ELSE [k \in DOMAIN d \cup {course} |-> IF k = course THEN <<grade>> ELSE d[k]]

RECURSIVE SeqSum(_)
SeqSum(s) == IF s = <<>> THEN 0 ELSE s[1] + SeqSum(Tail(s))

RECURSIVE GCD(_, _)
GCD(a, b) == IF b = 0 THEN a ELSE GCD(b, a % b)

\* sum(...) / len(...) on non-negative integers: the quotient in lowest terms
TrueDiv(n, d) == LET g == GCD(n, d) IN [num |-> n \div g, den |-> d \div g]

\* the float 0.0
Zero == [num |-> 0, den |-> 1]

\* comparison of two quotients
Less(a, b) == a.num * b.den < b.num * a.den

(* ----------------------------------------------------------- aggregation *)
\* target_rating.extend(grades) for every value of the dictionary
RECURSIVE Flatten(_, _)
Flatten(d, keys) ==
    IF keys = {} THEN <<>>
    ELSE LET k == CHOOSE x \in keys : TRUE
         IN d[k] \o Flatten(d, keys \ {k})

\* a slip: target_rating = grades instead of target_rating.extend(grades)
avg_gradeLastCourseOnly(course_grades) ==
    IF DOMAIN course_grades = {} THEN Zero
    ELSE LET target_rating == course_grades[CHOOSE k \in DOMAIN course_grades : TRUE]
         IN IF target_rating = <<>> THEN Zero
            ELSE TrueDiv(SeqSum(target_rating), Len(target_rating))

avg_grade(course_grades) ==
    IF DOMAIN course_grades = {} THEN Zero
    ELSE LET target_rating == Flatten(course_grades, DOMAIN course_grades)
         IN IF target_rating = <<>> THEN Zero
            ELSE TrueDiv(SeqSum(target_rating), Len(target_rating))

\* a slip: the mean over the first student of the list only
avg_students_gradeFirstOnly(students_list, course_name) ==
    LET target_rating ==
            IF students_list # <<>> /\ course_name \in DOMAIN grades[students_list[1]]
            THEN grades[students_list[1]][course_name] ELSE <<>>
    IN IF target_rating = <<>> THEN Zero
       ELSE TrueDiv(SeqSum(target_rating), Len(target_rating))

\* for student in students_list: if course_name in student.grades: extend
RECURSIVE CourseRatings(_, _)
CourseRatings(students_list, course_name) ==
    IF students_list = <<>> THEN <<>>
    ELSE (IF course_name \in DOMAIN grades[Head(students_list)]
          THEN grades[Head(students_list)][course_name] ELSE <<>>)
         \o CourseRatings(Tail(students_list), course_name)

avg_students_grade(students_list, course_name) ==
    LET target_rating == CourseRatings(students_list, course_name)
    IN IF target_rating = <<>> THEN Zero
       ELSE TrueDiv(SeqSum(target_rating), Len(target_rating))

(* ------------------------------------------------- comparison of Students *)
\* a slip: the dictionaries compared, not their averages
Student__eq__ByGrades(self, other) == grades[self] = grades[other]

Student__eq__(self, other) == avg_grade(grades[self]) = avg_grade(grades[other])

Student__lt__(self, other) == Less(avg_grade(grades[self]), avg_grade(grades[other]))

Student__gt__(self, other) == Less(avg_grade(grades[other]), avg_grade(grades[self]))

(* ------------------------------------------------------ rating operations *)
\* number of grades held by all grade dictionaries (read by the MaxRatings guard)
RECURSIVE CountGrades(_, _)
CountGrades(d, keys) ==
    IF keys = {} THEN 0
    ELSE LET k == CHOOSE x \in keys : TRUE
         IN Len(d[k]) + CountGrades(d, keys \ {k})

RECURSIVE TotalGradesOf(_)
TotalGradesOf(es) ==
    IF es = {} THEN 0
    ELSE LET e == CHOOSE x \in es : TRUE
         IN CountGrades(grades[e], DOMAIN grades[e]) + TotalGradesOf(es \ {e})

TotalGrades == TotalGradesOf(Graded)

\* a slip: the lecturer's own course list is not consulted
LectureRatingValidNoAttached(self, target_lecturer, course, grade) ==
    /\ target_lecturer \in Lecturers
    /\ InList(course, courses_in_progress[self])
    /\ MinGrade <= grade /\ grade <= MaxGrade

\* a slip: no lower end of the range
LectureRatingValidNoLower(self, target_lecturer, course, grade) ==
    /\ target_lecturer \in Lecturers
    /\ InList(course, courses_in_progress[self])
    /\ InList(course, courses_attached[target_lecturer])
    /\ grade <= MaxGrade

\* the condition of rate_lecture
LectureRatingValid(self, target_lecturer, course, grade) ==
    /\ target_lecturer \in Lecturers
    /\ InList(course, courses_in_progress[self])
    /\ InList(course, courses_attached[target_lecturer])
    /\ MinGrade <= grade /\ grade <= MaxGrade

\* a slip: no upper end of the range
HwRatingValidNoUpper(self, target_student, course, grade) ==
    /\ target_student \in Students
    /\ InList(course, courses_attached[self])
    /\ InList(course, courses_in_progress[target_student])
    /\ MinGrade <= grade

\* a slip: the student's own course list is not consulted
HwRatingValidNoInProgress(self, target_student, course, grade) ==
    /\ target_student \in Students
    /\ InList(course, courses_attached[self])
    /\ MinGrade <= grade /\ grade <= MaxGrade

\* the condition of rate_hw
HwRatingValid(self, target_student, course, grade) ==
    /\ target_student \in Students
    /\ InList(course, courses_attached[self])
    /\ InList(course, courses_in_progress[target_student])
    /\ MinGrade <= grade /\ grade <= MaxGrade

\* the last operation on the objects and what it returned
Call(op, ret) == [op |-> op, ret |-> ret]

\* a slip: self.grades for target_lecturer.grades
rate_lectureIntoSelf(self, target_lecturer, course, grade) ==
    /\ IF LectureRatingValid(self, target_lecturer, course, grade)
       THEN /\ last' = Call("rate_lecture", None)
            /\ TotalGrades < MaxRatings
            /\ grades' = [grades EXCEPT ![self] = AddGrade(@, course, grade)]
       ELSE /\ last' = Call("rate_lecture", Oshibka)
            /\ UNCHANGED grades
    /\ UNCHANGED <<finished_courses, courses_in_progress, courses_attached, query>>

rate_lecture(self, target_lecturer, course, grade) ==
    /\ IF LectureRatingValid(self, target_lecturer, course, grade)
       THEN /\ last' = Call("rate_lecture", None)
            /\ TotalGrades < MaxRatings
            /\ grades' = [grades EXCEPT ![target_lecturer] = AddGrade(@, course, grade)]
       ELSE /\ last' = Call("rate_lecture", Oshibka)
            /\ UNCHANGED grades
    /\ UNCHANGED <<finished_courses, courses_in_progress, courses_attached, query>>

rate_hw(self, target_student, course, grade) ==
    /\ IF HwRatingValid(self, target_student, course, grade)
       THEN /\ last' = Call("rate_hw", None)
            /\ TotalGrades < MaxRatings
            /\ grades' = [grades EXCEPT ![target_student] = AddGrade(@, course, grade)]
       ELSE /\ last' = Call("rate_hw", Oshibka)
            /\ UNCHANGED grades
    /\ UNCHANGED <<finished_courses, courses_in_progress, courses_attached, query>>

(* ------------------------------------- appends to the public course lists *)
\* number of entries of all course lists (read by the MaxCourseEntries guard)
RECURSIVE TotalLen(_, _)
TotalLen(f, keys) ==
    IF keys = {} THEN 0
    ELSE LET k == CHOOSE x \in keys : TRUE
         IN Len(f[k]) + TotalLen(f, keys \ {k})

CourseEntries ==
    TotalLen(finished_courses, Students) + TotalLen(courses_in_progress, Students)
        + TotalLen(courses_attached, Mentors)

\* student.finished_courses += [course]
append_finished(student, course) ==
    /\ last' = Call("finished_courses", None)
    /\ CourseEntries < MaxCourseEntries
    /\ finished_courses' = [finished_courses EXCEPT ![student] = Append(@, course)]
    /\ UNCHANGED <<courses_in_progress, courses_attached, grades, query>>

\* student.courses_in_progress += [course]
append_in_progress(student, course) ==
    /\ last' = Call("courses_in_progress", None)
    /\ CourseEntries < MaxCourseEntries
    /\ courses_in_progress' = [courses_in_progress EXCEPT ![student] = Append(@, course)]
    /\ UNCHANGED <<finished_courses, courses_attached, grades, query>>

\* mentor.courses_attached += [course]
append_attached(mentor, course) ==
    /\ last' = Call("courses_attached", None)
    /\ CourseEntries < MaxCourseEntries
    /\ courses_attached' = [courses_attached EXCEPT ![mentor] = Append(@, course)]
    /\ UNCHANGED <<finished_courses, courses_in_progress, grades, query>>

(* ------------------------------------------------------ rating runs: Spec *)
NoCall == Call("init", None)
NoQuery == [fn |-> "none", args |-> <<>>, result |-> Zero]

\* the lists every constructor leaves: [] everywhere
Constructed ==
    /\ finished_courses = [s \in Students |-> <<>>]
    /\ courses_in_progress = [s \in Students |-> <<>>]
    /\ courses_attached = [m \in Mentors |-> <<>>]

Init ==
    /\ Constructed
    /\ grades = [e \in Graded |-> EmptyDict]
    /\ last = NoCall
    /\ query = NoQuery

Next ==
    \/ \E s \in Students, c \in Courses : append_finished(s, c)
    \/ \E s \in Students, c \in Courses : append_in_progress(s, c)
    \/ \E m \in Mentors, c \in Courses : append_attached(m, c)
    \/ \E s \in Students, t \in Entities, c \in Courses, g \in GradeInputs :
           rate_lecture(s, t, c, g)
    \/ \E r \in Reviewers, t \in Entities, c \in Courses, g \in GradeInputs :
           rate_hw(r, t, c, g)

Spec == Init /\ [][Next]_vars

(* ----------------------------------------------- aggregation runs: SpecAvg *)
\* sequences of grades of length 0..n
RECURSIVE GradeSeqs(_)
GradeSeqs(n) ==
    IF n = 0 THEN {<<>>}
    ELSE LET shorter == GradeSeqs(n - 1)
         IN shorter \cup {Append(q, g) : q \in shorter, g \in GradeValues}

\* dictionaries course -> list of grades, any set of keys, lists possibly empty
GradeMappings ==
    UNION {[ks -> GradeSeqs(MaxSeqLen)] : ks \in SUBSET Courses}

\* the lists handed to avg_students_grade
StudentLists ==
    {<<>>} \cup {<<a>> : a \in Students} \cup {<<a, b>> : a \in Students, b \in Students}

Query(fn, args, result) == [fn |-> fn, args |-> args, result |-> result]

call_avg_grade(e) ==
    /\ query' = Query("avg_grade", <<e>>, avg_grade(grades[e]))
    /\ UNCHANGED <<finished_courses, courses_in_progress, courses_attached, grades, last>>

call_avg_students_grade(students_list, course_name) ==
    /\ query' = Query("avg_students_grade", <<students_list, course_name>>,
                      avg_students_grade(students_list, course_name))
    /\ UNCHANGED <<finished_courses, courses_in_progress, courses_attached, grades, last>>

\* a == b
call_eq(a, b) ==
    /\ query' = Query("__eq__", <<a, b>>, Student__eq__(a, b))
    /\ UNCHANGED <<finished_courses, courses_in_progress, courses_attached, grades, last>>

\* a < b
call_lt(a, b) ==
    /\ query' = Query("__lt__", <<a, b>>, Student__lt__(a, b))
    /\ UNCHANGED <<finished_courses, courses_in_progress, courses_attached, grades, last>>

\* a > b
call_gt(a, b) ==
    /\ query' = Query("__gt__", <<a, b>>, Student__gt__(a, b))
    /\ UNCHANGED <<finished_courses, courses_in_progress, courses_attached, grades, last>>

InitAvg ==
    /\ Constructed
    /\ grades \in [Graded -> GradeMappings]
    /\ \A l \in Lecturers : grades[l] = EmptyDict
    /\ last = NoCall
    /\ query = NoQuery

NextAvg ==
    \/ \E e \in Graded : call_avg_grade(e)
    \/ \E l \in StudentLists, c \in Courses : call_avg_students_grade(l, c)
    \/ \E a \in Students, b \in Students : call_eq(a, b)
    \/ \E a \in Students, b \in Students : call_lt(a, b)
    \/ \E a \in Students, b \in Students : call_gt(a, b)

SpecAvg == InitAvg /\ [][NextAvg]_vars

(* ================================================================ claims *)
Ratings == {"rate_lecture", "rate_hw"}

\* the courses of a list
Range(list) == {list[i] : i \in 1..Len(list)}

\* c is one of the courses of the list
Has(list, c) == \E i \in DOMAIN list : list[i] = c

\* the grades an object holds for a course: [] when the course has no entry
Recorded(e, c) == IF c \in DOMAIN grades[e] THEN grades[e][c] ELSE <<>>

IsPrefix(a, b) == Len(a) <= Len(b) /\ SubSeq(b, 1, Len(a)) = a

Lists == <<finished_courses, courses_in_progress, courses_attached>>

(* ---------------------------------------------------------------- C1 *)
C1_Pre(s, t, c, g) ==
    /\ t \in Lecturers
    /\ Has(courses_in_progress[s], c)
    /\ Has(courses_attached[t], c)
    /\ g \in 0..10

\* C1: rate_lecture(target, course, grade) returns None exactly when target is
\* a Lecturer, course is in the student's courses_in_progress and in target's
\* courses_attached and grade is in 0..10, and then target.grades[course] is the
\* old sequence ([] without an entry) with grade appended; otherwise it returns
\* the error marker.
C1_RateLectureContract ==
    \* a call that succeeded met the four preconditions and appended the grade
    /\ [][(last'.op = "rate_lecture" /\ last'.ret # Oshibka) =>
            /\ last'.ret = None
            /\ \A s \in Students, t \in Entities, c \in Courses, g \in GradeInputs :
                  rate_lecture(s, t, c, g) =>
                      /\ C1_Pre(s, t, c, g)
                      /\ c \in DOMAIN grades'[t]
                      /\ grades'[t][c] = Recorded(t, c) \o <<g>>]_vars
    \* a call that meets them cannot return the marker
    /\ [](\A s \in Students, t \in Entities, c \in Courses, g \in GradeInputs :
            C1_Pre(s, t, c, g) =>
                ~ENABLED (rate_lecture(s, t, c, g) /\ last'.ret = Oshibka))

C1_Witness ==
    /\ last = Call("rate_lecture", None)
    /\ \E l \in Lecturers, c \in Courses :
          /\ c \in DOMAIN grades[l] /\ Len(grades[l][c]) = 2
          /\ \E s \in Students : Has(courses_in_progress[s], c)
          /\ Has(courses_attached[l], c)

(* ---------------------------------------------------------------- C2 *)
\* C2: whenever rate_hw(student, course, g) succeeds with g in 0..10,
\* student.grades[course] is the old sequence ([] without an entry) with g
\* appended as its last element: its length grows by exactly 1.
C2_RateHwAppends ==
    [][(last'.op = "rate_hw" /\ last'.ret = None) =>
        \A r \in Reviewers, t \in Entities, c \in Courses, g \in GradeInputs :
            (g \in 0..10 /\ rate_hw(r, t, c, g)) =>
                /\ t \in DOMAIN grades' /\ c \in DOMAIN grades'[t]
                /\ LET old == Recorded(t, c)
                       new == grades'[t][c]
                   IN /\ Len(new) = Len(old) + 1
                      /\ new[Len(new)] = g
                      /\ SubSeq(new, 1, Len(old)) = old]_vars

C2_Witness ==
    /\ last = Call("rate_hw", None)
    /\ \E s \in Students, c \in Courses :
          c \in DOMAIN grades[s] /\ grades[s][c] = <<10, 0>>

(* ---------------------------------------------------------------- C3 *)
C3_BadLecture(s, t, c, g) ==
    \/ t \notin Lecturers
    \/ ~Has(courses_in_progress[s], c)
    \/ t \in Lecturers /\ ~Has(courses_attached[t], c)
    \/ g < 0
    \/ g > 10

C3_BadHw(r, t, c, g) ==
    \/ t \notin Students
    \/ ~Has(courses_attached[r], c)
    \/ t \in Students /\ ~Has(courses_in_progress[t], c)
    \/ g < 0
    \/ g > 10

\* C3: a rate_hw or rate_lecture call whose target is of the wrong kind, whose
\* course is missing from the rater's list or from the target's matching list,
\* or whose grade is below 0 or above 10, returns the error marker and leaves
\* every grade mapping and every course list unchanged.
C3_FailureChangesNothing ==
    [][last'.op \in Ratings =>
        \/ last'.ret = Oshibka /\ UNCHANGED <<grades, Lists>>
        \/ /\ \A s \in Students, t \in Entities, c \in Courses, g \in GradeInputs :
                 rate_lecture(s, t, c, g) => ~C3_BadLecture(s, t, c, g)
           /\ \A r \in Reviewers, t \in Entities, c \in Courses, g \in GradeInputs :
                 rate_hw(r, t, c, g) => ~C3_BadHw(r, t, c, g)]_vars

\* a failed rate_lecture where no lecturer has any course attached, although a
\* student holds grades and courses in progress
C3_Witness ==
    /\ last = Call("rate_lecture", Oshibka)
    /\ \A l \in Lecturers : courses_attached[l] = <<>>
    /\ \E s \in Students : courses_in_progress[s] # <<>> /\ grades[s] # EmptyDict

(* ---------------------------------------------------------------- C4 *)
\* C4: every grade stored in any Student's or Lecturer's grade mapping is an
\* integer between 0 and 10.
C4_GradesInRange ==
    \A e \in Graded : \A c \in DOMAIN grades[e] : \A i \in 1..Len(grades[e][c]) :
        grades[e][c][i] \in 0..10

\* both ends of the range are stored
C4_Witness ==
    \E e \in Graded, f \in Graded :
        \E c \in DOMAIN grades[e], d \in DOMAIN grades[f] :
            0 \in Range(grades[e][c]) /\ 10 \in Range(grades[f][d])

(* ---------------------------------------------------------------- C5 *)
\* C5: grade mappings are append-only: a course key appears only with a
\* successful rating, never maps to an empty sequence, is never removed, and
\* after every step each sequence has its previous value as a prefix.
C5_AppendOnly ==
    [][\A e \in Graded :
        /\ DOMAIN grades[e] \subseteq DOMAIN grades'[e]
        /\ \A c \in DOMAIN grades'[e] :
              /\ grades'[e][c] # <<>>
              /\ IsPrefix(Recorded(e, c), grades'[e][c])
              /\ (c \notin DOMAIN grades[e] =>
                     /\ last'.op \in Ratings /\ last'.ret = None
                     /\ \/ \E a \in Students, g \in GradeInputs : rate_lecture(a, e, c, g)
                        \/ \E r \in Reviewers, g \in GradeInputs : rate_hw(r, e, c, g))]_vars

C5_Witness ==
    \E e \in Graded : \E c \in DOMAIN grades[e] :
        Len(grades[e][c]) = 2 /\ grades[e][c][1] # grades[e][c][2]

(* ---------------------------------------------------------------- C9 *)
\* C9: with course lists that only grow, each course key of a Lecturer's grade
\* mapping is in that Lecturer's courses_attached and each course key of a
\* Student's grade mapping is in that Student's courses_in_progress.
C9_KeysAreCourses ==
    /\ \A l \in Lecturers : DOMAIN grades[l] \subseteq Range(courses_attached[l])
    /\ \A s \in Students : DOMAIN grades[s] \subseteq Range(courses_in_progress[s])

C9_Witness ==
    /\ \E l \in Lecturers : grades[l] # EmptyDict
    /\ \E s \in Students : grades[s] # EmptyDict

(* --------------------------------------------------------------- C10 *)
C10_Frame(t, c) ==
    /\ UNCHANGED Lists
    /\ \A e \in Graded \ {t} : grades'[e] = grades[e]
    /\ t \in Graded => /\ DOMAIN grades'[t] = DOMAIN grades[t] \cup {c}
                       /\ \A k \in DOMAIN grades[t] \ {c} : grades'[t][k] = grades[t][k]

AllGrades(M) == UNION {Range(M[k]) : k \in DOMAIN M}

\* C6 as stated: avg_grade(M) == 0.0 if and only if M is empty or all of its
\* sequences are empty.
C6_ZeroIffNoGrades ==
    query.fn = "avg_grade" =>
        LET M == grades[query.args[1]]
        IN (query.result.num = 0) <=> (\A k \in DOMAIN M : M[k] = <<>>)

\* C6 amended: avg_grade(M) == 0.0 if and only if M holds no grade other than 0
\* (M is empty, all of its sequences are empty, or every grade in it is 0).
C6_ZeroIffNoPositiveGrade ==
    query.fn = "avg_grade" =>
        LET M == grades[query.args[1]]
        IN (query.result.num = 0) <=> (AllGrades(M) \subseteq {0})

C6_Witness ==
    /\ query.fn = "avg_grade"
    /\ AllGrades(grades[query.args[1]]) = {0}
    /\ query.result = Zero

(* ---------------------------------------------------------------- C7 *)
Exceeds(x, y) == x.num * y.den > y.num * x.den

\* C7: for Students A and B, avg_grade(A.grades) > avg_grade(B.grades) makes
\* A > B true and B < A true, and A == B is true exactly when the two averages
\* are equal, whatever the distribution of the grades over courses.
C7_OrderByAverage ==
    LET A == avg_grade(grades[query.args[1]])
        B == avg_grade(grades[query.args[2]])
    IN /\ (query.fn = "__gt__" /\ Exceeds(A, B)) => query.result = TRUE
       /\ (query.fn = "__lt__" /\ Exceeds(B, A)) => query.result = TRUE
       /\ query.fn = "__eq__" => (query.result <=> (A.num * B.den = B.num * A.den))

\* equal averages from different dictionaries
C7_Witness ==
    /\ query.fn = "__eq__"
    /\ query.result = TRUE
    /\ grades[query.args[1]] # grades[query.args[2]]
    /\ avg_grade(grades[query.args[1]]).num > 0

(* ---------------------------------------------------------------- C8 *)
RECURSIVE CourseTotal(_, _, _)
CourseTotal(list, c, n) ==
    IF n = 0 THEN 0 ELSE SeqSum(Recorded(list[n], c)) + CourseTotal(list, c, n - 1)

RECURSIVE CourseCount(_, _, _)
CourseCount(list, c, n) ==
    IF n = 0 THEN 0 ELSE Len(Recorded(list[n], c)) + CourseCount(list, c, n - 1)

\* C8: avg_students_grade(students, course) is the arithmetic mean of all grades
\* recorded under course by the given Students (other courses and Students
\* without the course add nothing), and 0.0 when there is no such grade.
C8_CourseMean ==
    query.fn = "avg_students_grade" =>
        LET list == query.args[1]
            c == query.args[2]
            total == CourseTotal(list, c, Len(list))
            count == CourseCount(list, c, Len(list))
        IN IF count = 0 THEN query.result = Zero
           ELSE query.result.den > 0 /\ query.result.num * count = total * query.result.den

C8_Witness ==
    /\ query.fn = "avg_students_grade"
    /\ Len(query.args[1]) = 2 /\ query.args[1][1] # query.args[1][2]
    /\ Recorded(query.args[1][1], query.args[2]) = <<0>>
    /\ Recorded(query.args[1][2], query.args[2]) = <<10>>
    /\ \E k \in Courses \ {query.args[2]} : Recorded(query.args[1][1], k) = <<10>>
    /\ query.result = [num |-> 5, den |-> 1]
====
